---- MODULE Spec2Model ----
(***************************************************************************)
(* Model of server/routes/user-analytics.js: six admin report routes, each *)
(* registered as authenticateToken, requireAdmin, async handler.  A        *)
(* handler reads req.query / req.params, assembles SQL text, awaits one or *)
(* more sequelize.query calls in sequence and answers with res.json; any   *)
(* exception lands in the catch block, which answers 500.                  *)
(*                                                                         *)
(* SQL text is modelled as the sequence of clause tokens the code          *)
(* concatenates, and the database executes a query only if that sequence   *)
(* parses.  JavaScript values are records tagged with their type, strings  *)
(* are sequences of one-character strings.                                 *)
(***************************************************************************)
EXTENDS Integers, Sequences, FiniteSets, TLC

VARIABLES
    db,         \* the tables behind sequelize
    pc,         \* where the request in hand stands
    route,      \* the route it matched
    cred,       \* what its token proves: nothing, a user, an admin
    passed,     \* the middleware that called next() for it, in order
    q,          \* req.query and req.params as the handler read them
    loc,        \* the results the handler has awaited so far
    issued,     \* the sequelize.query calls made for it, in order
    responses,  \* the responses sent for it, in order
    fault       \* whether the database failed a query it had accepted

vars == <<db, pc, route, cred, passed, q, loc, issued, responses, fault>>

(***************************************************************************)
(* Bounds of the model.                                                    *)
(***************************************************************************)
MaxTime == 2

MaxUsers == 2

TicksPerDay == 2

Times == 0..MaxTime

UserIds == 1..MaxUsers

(***************************************************************************)
(* JavaScript values.                                                      *)
(***************************************************************************)
Undefined == [kind |-> "undefined", n |-> 0, s |-> <<>>]

Null == [kind |-> "null", n |-> 0, s |-> <<>>]

NaN == [kind |-> "NaN", n |-> 0, s |-> <<>>]

Infinity == [kind |-> "Infinity", n |-> 0, s |-> <<>>]

Num(n) == [kind |-> "number", n |-> n, s |-> <<>>]

Str(s) == [kind |-> "string", n |-> 0, s |-> s]

\* A date string that the database reads as the instant t.
DateStr(t) == [kind |-> "date", n |-> t, s |-> <<>>]

\* if (x): undefined and the empty string are falsy, other strings truthy.
Truthy(v) ==
    CASE v.kind = "undefined" -> FALSE
      [] v.kind = "null" -> FALSE
      [] v.kind = "NaN" -> FALSE
      [] v.kind = "string" -> v.s # <<>>
      [] v.kind = "number" -> v.n # 0
      [] OTHER -> TRUE

\* const { x = d } = req.query: the default applies to undefined only.
Default(v, d) == IF v.kind = "undefined" THEN d ELSE v

Digits == {"0", "1", "2", "3", "4", "5", "6", "7", "8", "9"}

DigitVal(c) ==
    CASE c = "0" -> 0 [] c = "1" -> 1 [] c = "2" -> 2 [] c = "3" -> 3
      [] c = "4" -> 4 [] c = "5" -> 5 [] c = "6" -> 6 [] c = "7" -> 7
      [] c = "8" -> 8 [] c = "9" -> 9

DigitChar(d) ==
    CASE d = 0 -> "0" [] d = 1 -> "1" [] d = 2 -> "2" [] d = 3 -> "3"
      [] d = 4 -> "4" [] d = 5 -> "5" [] d = 6 -> "6" [] d = 7 -> "7"
      [] d = 8 -> "8" [] d = 9 -> "9"

RECURSIVE DigitRun(_)
\* Length of the longest prefix of s made of decimal digits.
DigitRun(s) ==
    IF s # <<>> /\ Head(s) \in Digits THEN 1 + DigitRun(Tail(s)) ELSE 0

RECURSIVE DigitsValue(_, _)
\* Value of the decimal digits s read after the value acc.
DigitsValue(s, acc) ==
    IF s = <<>> THEN acc ELSE DigitsValue(Tail(s), 10 * acc + DigitVal(Head(s)))

RECURSIVE Pow10(_)
Pow10(k) == IF k = 0 THEN 1 ELSE 10 * Pow10(k - 1)

RECURSIVE DecimalText(_)
\* The decimal digits of a natural number.
DecimalText(n) ==
    IF n < 10 THEN <<DigitChar(n)>>
    ELSE Append(DecimalText(n \div 10), DigitChar(n % 10))

\* Number(string) on strings over digits, "-", "e" and letters: the whole
\* string must be [-]digits[e digits]; the empty string is 0.
StringToNumber(s) ==
    LET neg == s # <<>> /\ Head(s) = "-"
        body == IF neg THEN Tail(s) ELSE s
        m == DigitRun(body)
        rest == SubSeq(body, m + 1, Len(body))
        mant == DigitsValue(SubSeq(body, 1, m), 0)
        sign == IF neg THEN -1 ELSE 1
    IN  IF s = <<>> THEN Num(0)
        ELSE IF m = 0 THEN NaN
        ELSE IF rest = <<>> THEN Num(sign * mant)
        ELSE IF Head(rest) = "e" /\ Len(rest) >= 2
                /\ DigitRun(Tail(rest)) = Len(rest) - 1
             THEN Num(sign * mant * Pow10(DigitsValue(Tail(rest), 0)))
        ELSE NaN

\* Implicit numeric conversion of the operands of -, * and /.
ToNumber(v) ==
    CASE v.kind = "string" -> StringToNumber(v.s)
      [] v.kind = "number" -> v
      [] v.kind = "Infinity" -> v
      [] v.kind = "null" -> Num(0)
      [] OTHER -> NaN

\* parseInt(string): an optional sign and the longest run of digits after
\* it; whatever follows is ignored; NaN when there is no digit.
ParseIntString(s) ==
    LET neg == s # <<>> /\ Head(s) = "-"
        body == IF neg THEN Tail(s) ELSE s
        m == DigitRun(body)
    IN  IF m = 0 THEN NaN
        ELSE Num((IF neg THEN -1 ELSE 1) * DigitsValue(SubSeq(body, 1, m), 0))

\* parseInt(v): v is first converted to a string.
parseInt(v) ==
    CASE v.kind = "string" -> ParseIntString(v.s)
      [] v.kind = "number" ->
            ParseIntString(IF v.n < 0 THEN <<"-">> \o DecimalText(-v.n)
                           ELSE DecimalText(v.n))
      [] OTHER -> NaN

JsSub(a, b) ==
    LET x == ToNumber(a)
        y == ToNumber(b)
    IN  IF x.kind = "number" /\ y.kind = "number" THEN Num(x.n - y.n) ELSE NaN

JsMul(a, b) ==
    LET x == ToNumber(a)
        y == ToNumber(b)
    IN  IF x.kind = "number" /\ y.kind = "number" THEN Num(x.n * y.n) ELSE NaN

\* CeilDiv with Math.floor in the place of Math.ceil.
FloorDiv(a, b) ==
    LET x == ToNumber(a)
        y == ToNumber(b)
    IN  IF x.kind # "number" \/ y.kind # "number" THEN NaN
        ELSE IF y.n = 0 THEN (IF x.n = 0 THEN NaN ELSE Infinity)
        ELSE IF y.n > 0 THEN Num(x.n \div y.n)
        ELSE Num(-((x.n + (-y.n) - 1) \div (-y.n)))

\* Math.ceil(a / b) for a >= 0.
CeilDiv(a, b) ==
    LET x == ToNumber(a)
        y == ToNumber(b)
    IN  IF x.kind # "number" \/ y.kind # "number" THEN NaN
        ELSE IF y.n = 0 THEN (IF x.n = 0 THEN NaN ELSE Infinity)
        ELSE IF y.n > 0 THEN Num((x.n + y.n - 1) \div y.n)
        ELSE Num(-(x.n \div (-y.n)))

\* JSON.stringify writes NaN and Infinity as null.
Json(v) == IF v.kind \in {"NaN", "Infinity"} THEN Null ELSE v

\* node-postgres hands a bigint (the type of COUNT) over as a decimal string.
BigintText(n) == Str(DecimalText(n))

(***************************************************************************)
(* Text matching.                                                          *)
(***************************************************************************)
Lower(c) ==
    CASE c = "A" -> "a" [] c = "B" -> "b" [] c = "C" -> "c" [] c = "D" -> "d"
      [] OTHER -> c

RECURSIVE LikeMatch(_, _)
\* s ILIKE p: % stands for any run of characters, _ for any one character,
\* a backslash takes the next pattern character literally, and letters
\* match without regard to case.
LikeMatch(p, s) ==
    IF p = <<>> THEN s = <<>>
    ELSE IF Head(p) = "%"
         THEN LikeMatch(Tail(p), s) \/ (s # <<>> /\ LikeMatch(p, Tail(s)))
    ELSE IF s = <<>> THEN FALSE
    ELSE IF Head(p) = "_" THEN LikeMatch(Tail(p), Tail(s))
    ELSE IF Head(p) = "\\" /\ Len(p) >= 2
         THEN Lower(p[2]) = Lower(Head(s)) /\ LikeMatch(Tail(Tail(p)), Tail(s))
    ELSE Lower(Head(p)) = Lower(Head(s)) /\ LikeMatch(Tail(p), Tail(s))

\* search: `%${search}%`
SearchPattern(search) == <<"%">> \o search.s \o <<"%">>

(***************************************************************************)
(* The relational store the handlers read.  NULL is the empty sequence,    *)
(* a value v of a nullable column is <<v>>.                                *)
(***************************************************************************)
Usernames == << <<"a", "_", "b">>, <<"c", "d">>, <<"A", "c">>, <<"d", "d">> >>

Emails == << <<"A", "@", "x">>, <<"d", "@", "y">>, <<"c", "@", "z">>, <<"b", "@", "w">> >>

UserRow(i, t) ==
    [id |-> i, username |-> Usernames[i], email |-> Emails[i], created_at |-> t]

GenerationTypes == {"preview", "paid"}

GenRow(g, u, ty, paid, t) ==
    [id |-> g, user_id |-> u, generation_type |-> ty, is_paid |-> paid,
     created_at |-> t]

LogRow(l, u, ok, t, dur) ==
    [id |-> l, user_id |-> u, username |-> Usernames[u], login_time |-> t,
     login_success |-> ok, session_duration |-> dur]

\* Every users table over UserIds, a user registered at any instant.
UserTables ==
    UNION {{{UserRow(i, f[i]) : i \in S} : f \in [S -> Times]} : S \in SUBSET UserIds}

FixedUsers == {UserRow(i, (i - 1) % (MaxTime + 1)) : i \in UserIds}

\* Generation 1 belongs to user 1; generation 2, when there, to any user.
GenTables ==
    LET first == {GenRow(1, 1, ty, p, 0) : ty \in GenerationTypes, p \in BOOLEAN}
        second == {GenRow(2, u, ty, p, MaxTime) :
                     u \in UserIds, ty \in GenerationTypes, p \in BOOLEAN}
    IN  {{g} : g \in first} \cup {{g, h} : g \in first, h \in second}

FixedGens == {GenRow(1, 1, "preview", FALSE, 0), GenRow(2, 1, "paid", TRUE, MaxTime)}

LogTables ==
    LET first == {LogRow(1, 1, ok, 0, <<3>>) : ok \in BOOLEAN}
        second == {LogRow(2, u, ok, MaxTime, <<>>) : u \in UserIds, ok \in BOOLEAN}
        third == LogRow(3, 1, TRUE, MaxTime, <<4>>)
    IN  {{}} \cup {{l, third} : l \in first}
             \cup {{l, m, third} : l \in first, m \in second}

FixedLogs == {LogRow(1, 1, TRUE, 0, <<3>>), LogRow(3, 1, TRUE, MaxTime, <<4>>)}

Databases ==
    {[users |-> U, generations |-> {}, login_logs |-> {}] : U \in UserTables}
    \cup {[users |-> FixedUsers, generations |-> G, login_logs |-> FixedLogs] :
            G \in GenTables}
    \cup {[users |-> FixedUsers, generations |-> FixedGens, login_logs |-> L] :
            L \in LogTables}

\* DATE(timestamp)
Date(t) == t \div TicksPerDay

(***************************************************************************)
(* SQL.  A WHERE clause is the sequence of tokens the code concatenates:   *)
(* the keywords WHERE and AND, and conditions in their source text.        *)
(***************************************************************************)
Conditions ==
    {"(u.username ILIKE :search OR u.email ILIKE :search)",
     "u.created_at >= :dateFrom", "u.created_at <= :dateTo",
     "created_at >= :dateFrom", "created_at <= :dateTo",
     "login_time >= :dateFrom", "login_time <= :dateTo",
     "login_success = true", "generation_type = 'preview'",
     "(generation_type = 'paid' OR is_paid = true)",
     "session_duration IS NOT NULL", "user_id = :userId", "u.id = :userId",
     "g.user_id = :userId", "g.generation_type = 'preview'",
     "(g.generation_type = 'paid' OR g.is_paid = true)"}

\* The grammar of a WHERE clause: nothing, or WHERE cond (AND cond)*.
WellFormed(toks) ==
    /\ Len(toks) % 2 = 0
    /\ \A i \in 1..Len(toks) :
          IF i % 2 = 1 THEN toks[i] = (IF i = 1 THEN "WHERE" ELSE "AND")
          ELSE toks[i] \in Conditions

\* The named parameters a condition mentions.
ParamsOf(cond) ==
    CASE cond = "(u.username ILIKE :search OR u.email ILIKE :search)" -> {"search"}
      [] cond \in {"u.created_at >= :dateFrom", "created_at >= :dateFrom",
                   "login_time >= :dateFrom"} -> {"dateFrom"}
      [] cond \in {"u.created_at <= :dateTo", "created_at <= :dateTo",
                   "login_time <= :dateTo"} -> {"dateTo"}
      [] cond \in {"user_id = :userId", "u.id = :userId", "g.user_id = :userId"} ->
            {"userId"}
      [] OTHER -> {}

\* Whether a row satisfies a condition under the replacements.
Holds(cond, r, repl) ==
    CASE cond = "(u.username ILIKE :search OR u.email ILIKE :search)" ->
            \/ LikeMatch(repl.search, r.username)
            \/ LikeMatch(repl.search, r.email)
      [] cond \in {"u.created_at >= :dateFrom", "created_at >= :dateFrom"} ->
            r.created_at >= repl.dateFrom.n
      [] cond \in {"u.created_at <= :dateTo", "created_at <= :dateTo"} ->
            r.created_at <= repl.dateTo.n
      [] cond = "login_time >= :dateFrom" -> r.login_time >= repl.dateFrom.n
      [] cond = "login_time <= :dateTo" -> r.login_time <= repl.dateTo.n
      [] cond = "login_success = true" -> r.login_success
      [] cond \in {"generation_type = 'preview'", "g.generation_type = 'preview'"} ->
            r.generation_type = "preview"
      [] cond \in {"(generation_type = 'paid' OR is_paid = true)",
                   "(g.generation_type = 'paid' OR g.is_paid = true)"} ->
            r.generation_type = "paid" \/ r.is_paid
      [] cond = "session_duration IS NOT NULL" -> r.session_duration # <<>>
      [] cond \in {"user_id = :userId", "g.user_id = :userId"} ->
            r.user_id = StringToNumber(repl.userId.s).n
      [] cond = "u.id = :userId" -> r.id = StringToNumber(repl.userId.s).n

\* The database rejects a statement whose WHERE clause does not parse, and
\* sequelize one that names a parameter without a replacement.
Rejected(toks, repl) ==
    \/ ~WellFormed(toks)
    \/ \E i \in 1..Len(toks) :
          i % 2 = 0 /\ ~(ParamsOf(toks[i]) \subseteq DOMAIN repl)

\* The rows of a table that satisfy every condition of the clause.
Select(table, toks, repl) ==
    {r \in table : \A i \in 1..Len(toks) : i % 2 = 0 => Holds(toks[i], r, repl)}

\* LIMIT and OFFSET take non-negative integers only.
BadLimit(v) == v.kind # "number" \/ v.n < 0

\* The sequences that list S in descending order of key; rows with equal
\* keys come in any order.
Orderings(S, key) ==
    {f \in [1..Cardinality(S) -> S] :
        /\ \A i, j \in DOMAIN f : i # j => f[i] # f[j]
        /\ \A i, j \in DOMAIN f : i < j => key[f[i]] >= key[f[j]]}

Min(a, b) == IF a < b THEN a ELSE b

\* LIMIT lim OFFSET off
Window(rows, lim, off) == SubSeq(rows, off + 1, Min(Len(rows), off + lim))

(***************************************************************************)
(* Requests.                                                               *)
(***************************************************************************)
Routes ==
    {"/users", "/users/:userId", "/registrations", "/logins",
     "/online-duration", "/overview"}

Credentials == {"none", "user", "admin"}

\* Chain with requireAdmin left out of the registration.
ChainWithoutAdmin(r) == <<"authenticateToken", "handler">>

\* router.get(path, authenticateToken, requireAdmin, async (req, res) => ...)
Chain(r) == <<"authenticateToken", "requireAdmin", "handler">>

PageParams == {Undefined, Str(<<"2">>), Str(<<"0">>)}

LimitParams ==
    {Undefined, Str(<<"1">>), Str(<<"2">>), Str(<<"0">>), Str(<<"1", "e", "1">>)}

SearchParams == {Undefined, Str(<<"_">>), Str(<<"A">>)}

DateParams == {Undefined} \cup {DateStr(t) : t \in Times}

UsersDateParams == {Undefined} \cup {DateStr(t) : t \in 1..(MaxTime - 1)}

\* Ids in the path or the query string: every user's, and one nobody has.
UserIdParams == {Str(DecimalText(i)) : i \in 1..(MaxUsers + 1)}

NoQuery ==
    [page |-> Undefined, limit |-> Undefined, search |-> Undefined,
     dateFrom |-> Undefined, dateTo |-> Undefined, userId |-> Undefined]

\* The fixed messages of the 500 and the 404, in English here.
ErrorBody == [message |-> "internal server error"]

NotFoundBody == [message |-> "user does not exist"]

Init ==
    /\ db \in Databases
    /\ pc = "idle"
    /\ route = "none"
    /\ cred = "none"
    /\ passed = <<>>
    /\ q = NoQuery
    /\ loc = <<>>
    /\ issued = <<>>
    /\ responses = <<>>
    /\ fault = FALSE

\* A request arrives and express starts the route's chain.
Receive ==
    /\ pc = "idle"
    /\ \E r \in Routes, c \in Credentials : route' = r /\ cred' = c
    /\ pc' = "chain"
    /\ passed' = <<>>
    /\ q' = NoQuery
    /\ loc' = <<>>
    /\ issued' = <<>>
    /\ responses' = <<>>
    /\ fault' = FALSE
    /\ UNCHANGED db

\* The element of the chain that runs next.
Upcoming == IF pc = "chain" THEN Chain(route)[Len(passed) + 1] ELSE "none"

\* authenticateToken: next() for a valid token, else a rejection.
AuthenticateToken ==
    /\ Upcoming = "authenticateToken"
    /\ IF cred = "none"
       THEN /\ responses' = Append(responses, [status |-> 401, body |-> ErrorBody])
            /\ pc' = "done"
            /\ UNCHANGED passed
       ELSE /\ passed' = Append(passed, "authenticateToken")
            /\ UNCHANGED <<pc, responses>>
    /\ UNCHANGED <<db, route, cred, q, loc, issued, fault>>

\* requireAdmin: next() for an admin, else a rejection.
RequireAdmin ==
    /\ Upcoming = "requireAdmin"
    /\ IF cred # "admin"
       THEN /\ responses' = Append(responses, [status |-> 403, body |-> ErrorBody])
            /\ pc' = "done"
            /\ UNCHANGED passed
       ELSE /\ passed' = Append(passed, "requireAdmin")
            /\ UNCHANGED <<pc, responses>>
    /\ UNCHANGED <<db, route, cred, q, loc, issued, fault>>

\* The handler of route r is about to run its first statement.
Entering(r) == route = r /\ Upcoming = "handler"

(***************************************************************************)
(* What every handler shares: try { ... await sequelize.query ... }        *)
(* catch (error) { res.status(500).json(...) }.                            *)
(***************************************************************************)
\* Catch that answers 500 and lets the handler go on where it stood.
CatchAndGoOn ==
    /\ responses' = Append(responses, [status |-> 500, body |-> ErrorBody])
    /\ UNCHANGED <<pc, loc>>

\* catch: one response, and the handler is over.
Catch ==
    /\ responses' = Append(responses, [status |-> 500, body |-> ErrorBody])
    /\ pc' = "done"
    /\ UNCHANGED loc

\* res.json(body), the last statement of the try block.
Reply(body) ==
    /\ responses' = Append(responses, [status |-> 200, body |-> body])
    /\ pc' = "done"

\* The locals of the handler once one more result is in.
Finals(results) == {Append(loc, res) : res \in results}

\* await sequelize.query(name) and the destructuring of what it returns:
\* this throws when the statement is rejected, the database fails or the
\* result has not the shape destructured; else one of its possible results is
\* kept and the handler goes on at next, or, when next is "done", replies
\* with the body that bodies gives for its locals.
Await(name, rejected, results, next, bodies) ==
    /\ issued' = Append(issued, name)
    /\ \E ok \in BOOLEAN :
          IF rejected \/ ~ok
          THEN /\ fault' = (fault \/ ~rejected)
               /\ Catch
          ELSE /\ fault' = fault
               /\ \E res \in results :
                     /\ loc' = Append(loc, res)
                     /\ IF next = "done" THEN Reply(bodies[Append(loc, res)])
                        ELSE pc' = next /\ UNCHANGED responses
    /\ UNCHANGED <<db, route, cred, passed>>

\* A handler that has more to await has no body yet.
NoBody == <<>>

(***************************************************************************)
(* GET /users                                                              *)
(***************************************************************************)
UsersPage(r) == Default(r.page, Num(1))

UsersLimit(r) == Default(r.limit, Num(50))

UsersSearch(r) == Default(r.search, Str(<<>>))

\* const offset = (page - 1) * limit
UsersOffset(r) == JsMul(JsSub(UsersPage(r), Num(1)), UsersLimit(r))

UsersDateFilter(r) ==
    (IF Truthy(r.dateFrom) THEN <<"AND", "u.created_at >= :dateFrom">> ELSE <<>>)
    \o (IF Truthy(r.dateTo) THEN <<"AND", "u.created_at <= :dateTo">> ELSE <<>>)

\* The replacements that carry a date: only the dates that were given.
DateReplacements(r) ==
    (IF Truthy(r.dateFrom) THEN [dateFrom |-> r.dateFrom] ELSE <<>>)
    @@ (IF Truthy(r.dateTo) THEN [dateTo |-> r.dateTo] ELSE <<>>)

UsersReplacements(r) ==
    [search |-> SearchPattern(UsersSearch(r)),
     limit |-> parseInt(UsersLimit(r)),
     offset |-> parseInt(UsersOffset(r))] @@ DateReplacements(r)

UsersWhere(r) ==
    <<"WHERE", "(u.username ILIKE :search OR u.email ILIKE :search)">>
    \o UsersDateFilter(r)

\* FROM users u LEFT JOIN generations g ... LEFT JOIN login_logs ll ...:
\* the joined rows of user u, a side without a match being NULL.
Joined(u) ==
    LET gs == {<<g>> : g \in {x \in db.generations : x.user_id = u.id}}
        ls == {<<l>> : l \in {x \in db.login_logs :
                                x.user_id = u.id /\ x.login_success}}
    IN  {[g |-> g, ll |-> l] :
            g \in (IF gs = {} THEN {<<>>} ELSE gs),
            l \in (IF ls = {} THEN {<<>>} ELSE ls)}

\* COUNT(DISTINCT g.id) FILTER (WHERE g.generation_type = 'preview')
PreviewCount(u) ==
    Cardinality({j.g[1].id : j \in {x \in Joined(u) :
        x.g # <<>> /\ x.g[1].generation_type = "preview"}})

\* DownloadCount without DISTINCT: COUNT(g.id) FILTER (...) over the joined rows.
DownloadCountAll(u) ==
    Cardinality({x \in Joined(u) :
        x.g # <<>> /\ (x.g[1].generation_type = "paid" \/ x.g[1].is_paid)})

\* COUNT(DISTINCT g.id) FILTER (WHERE g.generation_type = 'paid' OR g.is_paid = true)
DownloadCount(u) ==
    Cardinality({j.g[1].id : j \in {x \in Joined(u) :
        x.g # <<>> /\ (x.g[1].generation_type = "paid" \/ x.g[1].is_paid)}})

\* COUNT(DISTINCT g.id)
TotalGenerations(u) ==
    Cardinality({j.g[1].id : j \in {x \in Joined(u) : x.g # <<>>}})

\* COUNT(DISTINCT ll.id)
LoginCount(u) ==
    Cardinality({j.ll[1].id : j \in {x \in Joined(u) : x.ll # <<>>}})

\* One row of the list: the grouped columns and the aggregates.
ListRow(u) ==
    [id |-> u.id, username |-> u.username, email |-> u.email,
     registration_time |-> u.created_at,
     preview_count |-> BigintText(PreviewCount(u)),
     download_count |-> BigintText(DownloadCount(u)),
     total_generations |-> BigintText(TotalGenerations(u)),
     login_count |-> BigintText(LoginCount(u))]

\* The list statement fails on a bad clause and on a LIMIT or OFFSET that
\* is no non-negative integer.
UsersListRejected(r) ==
    \/ Rejected(UsersWhere(r), UsersReplacements(r))
    \/ BadLimit(UsersReplacements(r).limit)
    \/ BadLimit(UsersReplacements(r).offset)

\* ... ORDER BY u.created_at DESC LIMIT :limit OFFSET :offset
UsersListResults(r) ==
    LET repl == UsersReplacements(r)
        found == Select(db.users, UsersWhere(r), repl)
    IN  {Window([i \in DOMAIN f |-> ListRow(f[i])], repl.limit.n, repl.offset.n) :
            f \in Orderings(found, [u \in found |-> u.created_at])}

\* SELECT COUNT(DISTINCT u.id) as total FROM users u WHERE ...
UsersCountResults(r) ==
    {BigintText(Cardinality({u.id : u \in
        Select(db.users, UsersWhere(r), UsersReplacements(r))}))}

\* res.json({ users, pagination: { total, page, limit, pages } })
UsersBody(r, l) ==
    [users |-> l[1],
     pagination |->
        [total |-> Json(parseInt(l[2])),
         page |-> Json(parseInt(UsersPage(r))),
         limit |-> Json(parseInt(UsersLimit(r))),
         pages |-> Json(CeilDiv(l[2], UsersLimit(r)))]]

\* Lines 10-65: read the query string, build both statements, await the list.
UsersList ==
    /\ Entering("/users")
    /\ \E page \in PageParams, limit \in LimitParams, search \in SearchParams,
          dateFrom \in UsersDateParams, dateTo \in UsersDateParams :
          q' = [NoQuery EXCEPT !.page = page, !.limit = limit, !.search = search,
                               !.dateFrom = dateFrom, !.dateTo = dateTo]
    /\ Await("users.list", UsersListRejected(q'), UsersListResults(q'),
             "users.count", NoBody)

\* Lines 66-76: await the count and reply.
UsersCount ==
    /\ pc = "users.count"
    /\ q' = q
    /\ Await("users.count", Rejected(UsersWhere(q), UsersReplacements(q)),
             UsersCountResults(q), "done",
             [l \in Finals(UsersCountResults(q)) |-> UsersBody(q, l)])

(***************************************************************************)
(* GET /users/:userId                                                      *)
(***************************************************************************)
RecentGenerations == 20

RecentLogins == 30

DetailReplacements(r) == [userId |-> r.userId]

\* SELECT ... FROM users u LEFT JOIN ... WHERE u.id = :userId GROUP BY u.id
UserInfoRows(r) ==
    LET found == Select(db.users, <<"WHERE", "u.id = :userId">>, DetailReplacements(r))
    IN  {[i \in DOMAIN f |-> ListRow(f[i])] :
            f \in Orderings(found, [u \in found |-> 0])}

\* UserAbsent with the test left out: the handler never returns early.
UserAbsentIgnored(rows) == FALSE

\* if (!userInfo): const [[userInfo]] leaves userInfo undefined when the
\* statement returned no row.
UserAbsent(rows) == rows = <<>>

PreviewWhere == <<"WHERE", "g.user_id = :userId", "AND", "g.generation_type = 'preview'">>

DownloadWhere ==
    <<"WHERE", "g.user_id = :userId", "AND",
      "(g.generation_type = 'paid' OR g.is_paid = true)">>

LoginWhere == <<"WHERE", "user_id = :userId", "AND", "login_success = true">>

\* ... FROM generations g LEFT JOIN templates t ... ORDER BY g.created_at DESC LIMIT 20
GenerationRecords(r, where) ==
    LET found == Select(db.generations, where, DetailReplacements(r))
    IN  {Window([i \in DOMAIN f |-> [id |-> f[i].id, created_at |-> f[i].created_at]],
                RecentGenerations, 0) :
            f \in Orderings(found, [g \in found |-> g.created_at])}

\* ... FROM login_logs WHERE ... ORDER BY login_time DESC LIMIT 30
LoginRecords(r) ==
    LET found == Select(db.login_logs, LoginWhere, DetailReplacements(r))
    IN  {Window([i \in DOMAIN f |->
                    [login_time |-> f[i].login_time,
                     session_duration |-> f[i].session_duration]],
                RecentLogins, 0) :
            f \in Orderings(found, [l \in found |-> l.login_time])}

\* res.json({ userInfo, previewRecords, downloadRecords, loginRecords })
DetailBody(l) ==
    [userInfo |-> l[1], previewRecords |-> l[2], downloadRecords |-> l[3],
     loginRecords |-> l[4]]

\* Lines 86-116: await the user's row; without one, 404 and return.
DetailUser ==
    /\ Entering("/users/:userId")
    /\ \E userId \in UserIdParams : q' = [NoQuery EXCEPT !.userId = userId]
    /\ issued' = Append(issued, "detail.userInfo")
    /\ \E ok \in BOOLEAN :
          IF ~ok
          THEN fault' = TRUE /\ Catch
          ELSE /\ fault' = fault
               /\ \E rows \in UserInfoRows(q') :
                     IF UserAbsent(rows)
                     THEN /\ responses' =
                               Append(responses, [status |-> 404, body |-> NotFoundBody])
                          /\ pc' = "done"
                          /\ UNCHANGED loc
                     ELSE /\ loc' = <<rows>>
                          /\ pc' = "detail.previews"
                          /\ UNCHANGED responses
    /\ UNCHANGED <<db, route, cred, passed>>

\* Lines 119-133
DetailPreviews ==
    /\ pc = "detail.previews"
    /\ q' = q
    /\ Await("detail.previews", Rejected(PreviewWhere, DetailReplacements(q)),
             GenerationRecords(q, PreviewWhere), "detail.downloads", NoBody)

\* Lines 136-151
DetailDownloads ==
    /\ pc = "detail.downloads"
    /\ q' = q
    /\ Await("detail.downloads", Rejected(DownloadWhere, DetailReplacements(q)),
             GenerationRecords(q, DownloadWhere), "detail.logins", NoBody)

\* Lines 154-173
DetailLogins ==
    /\ pc = "detail.logins"
    /\ q' = q
    /\ Await("detail.logins", Rejected(LoginWhere, DetailReplacements(q)),
             LoginRecords(q), "done",
             [l \in Finals(LoginRecords(q)) |-> DetailBody(l)])

(***************************************************************************)
(* GET /registrations and GET /logins                                      *)
(***************************************************************************)
\* RangeFilter that joins the dateTo condition with AND whatever precedes it.
RangeFilterAlwaysAnd(r, from, to) ==
    (IF Truthy(r.dateFrom) THEN <<"WHERE", from>> ELSE <<>>)
    \o (IF Truthy(r.dateTo) THEN <<"AND", to>> ELSE <<>>)

\* let dateFilter = ''; if (dateFrom) ' WHERE col >= :dateFrom';
\* if (dateTo) (dateFilter ? ' AND' : ' WHERE') + ' col <= :dateTo'
RangeFilter(r, from, to) ==
    LET first == IF Truthy(r.dateFrom) THEN <<"WHERE", from>> ELSE <<>>
    IN  first \o (IF Truthy(r.dateTo)
                  THEN <<IF first # <<>> THEN "AND" ELSE "WHERE", to>>
                  ELSE <<>>)

RegistrationsWhere(r) ==
    RangeFilter(r, "created_at >= :dateFrom", "created_at <= :dateTo")

\* SELECT DATE(created_at) as date, COUNT(*) as count FROM users ...
\* GROUP BY DATE(created_at) ORDER BY date DESC
RegistrationsResults(r) ==
    LET found == Select(db.users, RegistrationsWhere(r), DateReplacements(r))
        groups == {[date |-> d,
                    count |-> BigintText(Cardinality(
                                {u \in found : Date(u.created_at) = d}))] :
                     d \in {Date(u.created_at) : u \in found}}
    IN  Orderings(groups, [g \in groups |-> g.date])

Registrations ==
    /\ Entering("/registrations")
    /\ \E dateFrom \in DateParams, dateTo \in DateParams :
          q' = [NoQuery EXCEPT !.dateFrom = dateFrom, !.dateTo = dateTo]
    /\ Await("registrations", Rejected(RegistrationsWhere(q'), DateReplacements(q')),
             RegistrationsResults(q'), "done",
             [l \in Finals(RegistrationsResults(q')) |-> [registrations |-> l[1]]])

\* FROM login_logs ${dateFilter} AND login_success = true
LoginsWhere(r) ==
    RangeFilter(r, "login_time >= :dateFrom", "login_time <= :dateTo")
    \o <<"AND", "login_success = true">>

\* SELECT DATE(login_time) as date, COUNT(DISTINCT user_id) as unique_users,
\* COUNT(*) as total_logins ... GROUP BY DATE(login_time) ORDER BY date DESC
LoginsResults(r) ==
    LET found == Select(db.login_logs, LoginsWhere(r), DateReplacements(r))
        groups == {[date |-> d,
                    unique_users |-> BigintText(Cardinality(
                        {l.user_id : l \in {x \in found : Date(x.login_time) = d}})),
                    total_logins |-> BigintText(Cardinality(
                        {x \in found : Date(x.login_time) = d}))] :
                     d \in {Date(l.login_time) : l \in found}}
    IN  Orderings(groups, [g \in groups |-> g.date])

Logins ==
    /\ Entering("/logins")
    /\ \E dateFrom \in DateParams, dateTo \in DateParams :
          q' = [NoQuery EXCEPT !.dateFrom = dateFrom, !.dateTo = dateTo]
    /\ Await("logins", Rejected(LoginsWhere(q'), DateReplacements(q')),
             LoginsResults(q'), "done",
             [l \in Finals(LoginsResults(q')) |-> [logins |-> l[1]]])

(***************************************************************************)
(* GET /online-duration                                                    *)
(***************************************************************************)
\* filters = ['session_duration IS NOT NULL'], then one push per parameter
\* given.
DurationFilters(r) ==
    <<"session_duration IS NOT NULL">>
    \o (IF Truthy(r.userId) THEN <<"user_id = :userId">> ELSE <<>>)
    \o (IF Truthy(r.dateFrom) THEN <<"login_time >= :dateFrom">> ELSE <<>>)
    \o (IF Truthy(r.dateTo) THEN <<"login_time <= :dateTo">> ELSE <<>>)

RECURSIVE JoinAnd(_)
\* filters.join(' AND ')
JoinAnd(fs) ==
    IF Len(fs) <= 1 THEN fs ELSE <<Head(fs), "AND">> \o JoinAnd(Tail(fs))

\* filters.length > 0 ? 'WHERE ' + filters.join(' AND ') : ''
DurationWhere(r) ==
    IF Len(DurationFilters(r)) > 0 THEN <<"WHERE">> \o JoinAnd(DurationFilters(r))
    ELSE <<>>

DurationReplacements(r) ==
    (IF Truthy(r.userId) THEN [userId |-> r.userId] ELSE <<>>) @@ DateReplacements(r)

RECURSIVE SumSeconds(_)
\* SUM(session_duration) over rows whose duration is not NULL.
SumSeconds(S) ==
    IF S = {} THEN 0
    ELSE LET x == CHOOSE y \in S : TRUE
         IN  x.session_duration[1] + SumSeconds(S \ {x})

\* SELECT username, DATE(login_time) as date, SUM(session_duration) as
\* total_seconds, COUNT(*) as session_count ... GROUP BY username,
\* DATE(login_time) ORDER BY date DESC, total_seconds DESC
DurationResults(r) ==
    LET found == Select(db.login_logs, DurationWhere(r), DurationReplacements(r))
        of(k) == {l \in found : l.username = k[1] /\ Date(l.login_time) = k[2]}
        keys == {<<l.username, Date(l.login_time)>> : l \in found}
        groups == {[username |-> k[1], date |-> k[2],
                    total_seconds |-> BigintText(SumSeconds(of(k))),
                    session_count |-> BigintText(Cardinality(of(k)))] : k \in keys}
        top == SumSeconds(found) + 1
    IN  Orderings(groups, [g \in groups |->
            g.date * top + StringToNumber(g.total_seconds.s).n])

OnlineDuration ==
    /\ Entering("/online-duration")
    /\ \E userId \in {Undefined} \cup UserIdParams,
          dateFrom \in DateParams, dateTo \in DateParams :
          q' = [NoQuery EXCEPT !.userId = userId, !.dateFrom = dateFrom,
                               !.dateTo = dateTo]
    /\ Await("online-duration", Rejected(DurationWhere(q'), DurationReplacements(q')),
             DurationResults(q'), "done",
             [l \in Finals(DurationResults(q')) |-> [onlineDuration |-> l[1]]])

(***************************************************************************)
(* GET /overview                                                           *)
(***************************************************************************)
\* if (dateFrom) filter = ' WHERE col >= :dateFrom';
\* if (dateTo) filter += (dateFrom ? ' AND' : ' WHERE') + ' col <= :dateTo'
OverviewFilter(r, from, to) ==
    (IF Truthy(r.dateFrom) THEN <<"WHERE", from>> ELSE <<>>)
    \o (IF Truthy(r.dateTo)
        THEN <<IF Truthy(r.dateFrom) THEN "AND" ELSE "WHERE", to>>
        ELSE <<>>)

userDateFilter(r) == OverviewFilter(r, "created_at >= :dateFrom", "created_at <= :dateTo")

genDateFilter(r) == OverviewFilter(r, "created_at >= :dateFrom", "created_at <= :dateTo")

loginDateFilter(r) == OverviewFilter(r, "login_time >= :dateFrom", "login_time <= :dateTo")

\* FROM login_logs ${loginDateFilter} AND login_success = true
OverviewLoginWhere(r) == loginDateFilter(r) \o <<"AND", "login_success = true">>

\* FROM generations ${genDateFilter} ${genDateFilter ? 'AND' : 'WHERE'} generation_type = 'preview'
OverviewPreviewWhere(r) ==
    genDateFilter(r)
    \o <<IF genDateFilter(r) # <<>> THEN "AND" ELSE "WHERE", "generation_type = 'preview'">>

\* FROM generations ${genDateFilter} ${genDateFilter ? 'AND' : 'WHERE'}
\* (generation_type = 'paid' OR is_paid = true)
OverviewDownloadWhere(r) ==
    genDateFilter(r)
    \o <<IF genDateFilter(r) # <<>> THEN "AND" ELSE "WHERE",
         "(generation_type = 'paid' OR is_paid = true)">>

\* SELECT COUNT(*) FROM table where
CountRows(table, where, r) ==
    {BigintText(Cardinality(Select(table, where, DateReplacements(r))))}

\* SELECT COUNT(DISTINCT user_id) FROM login_logs where
CountLoginUsers(where, r) ==
    {BigintText(Cardinality(
        {l.user_id : l \in Select(db.login_logs, where, DateReplacements(r))}))}

\* res.json({ overview: { ... parseInt of each count ... } })
OverviewBody(l) ==
    [overview |->
        [total_users |-> Json(parseInt(l[1])),
         active_users |-> Json(parseInt(l[2])),
         total_previews |-> Json(parseInt(l[3])),
         total_downloads |-> Json(parseInt(l[4])),
         total_logins |-> Json(parseInt(l[5]))]]

\* Lines 298-323
OverviewUsers ==
    /\ Entering("/overview")
    /\ \E dateFrom \in DateParams, dateTo \in DateParams :
          q' = [NoQuery EXCEPT !.dateFrom = dateFrom, !.dateTo = dateTo]
    /\ Await("overview.total_users", Rejected(userDateFilter(q'), DateReplacements(q')),
             CountRows(db.users, userDateFilter(q'), q'), "overview.active_users", NoBody)

\* Lines 326-330
OverviewActiveUsers ==
    /\ pc = "overview.active_users"
    /\ q' = q
    /\ Await("overview.active_users", Rejected(OverviewLoginWhere(q), DateReplacements(q)),
             CountLoginUsers(OverviewLoginWhere(q), q), "overview.total_previews", NoBody)

\* Lines 333-337
OverviewPreviews ==
    /\ pc = "overview.total_previews"
    /\ q' = q
    /\ Await("overview.total_previews",
             Rejected(OverviewPreviewWhere(q), DateReplacements(q)),
             CountRows(db.generations, OverviewPreviewWhere(q), q),
             "overview.total_downloads", NoBody)

\* Lines 340-344
OverviewDownloads ==
    /\ pc = "overview.total_downloads"
    /\ q' = q
    /\ Await("overview.total_downloads",
             Rejected(OverviewDownloadWhere(q), DateReplacements(q)),
             CountRows(db.generations, OverviewDownloadWhere(q), q),
             "overview.total_logins", NoBody)

\* Lines 347-361
OverviewLogins ==
    /\ pc = "overview.total_logins"
    /\ q' = q
    /\ Await("overview.total_logins", Rejected(OverviewLoginWhere(q), DateReplacements(q)),
             CountRows(db.login_logs, OverviewLoginWhere(q), q), "done",
             [l \in Finals(CountRows(db.login_logs, OverviewLoginWhere(q), q)) |->
                OverviewBody(l)])

Next ==
    \/ Receive
    \/ AuthenticateToken
    \/ RequireAdmin
    \/ UsersList
    \/ UsersCount
    \/ DetailUser
    \/ DetailPreviews
    \/ DetailDownloads
    \/ DetailLogins
    \/ Registrations
    \/ Logins
    \/ OnlineDuration
    \/ OverviewUsers
    \/ OverviewActiveUsers
    \/ OverviewPreviews
    \/ OverviewDownloads
    \/ OverviewLogins

Spec == Init /\ [][Next]_vars

(***************************************************************************)
(* What the properties below speak of, stated on the tables themselves.    *)
(***************************************************************************)
Admitted == passed = <<"authenticateToken", "requireAdmin">>

\* The request was answered by its handler, with this status.
Answered(r, status) ==
    /\ route = r
    /\ pc = "done"
    /\ Admitted
    /\ Len(responses) = 1
    /\ responses[1].status = status

\* t lies in the inclusive range the request gave.
InRange(t) ==
    /\ q.dateFrom.kind = "date" => t >= q.dateFrom.n
    /\ q.dateTo.kind = "date" => t <= q.dateTo.n

\* sub occurs in s, letters compared without regard to case.
Contains(s, sub) ==
    \E i \in 0..(Len(s) - Len(sub)) :
        \A k \in 1..Len(sub) : Lower(s[i + k]) = Lower(sub[k])

\* The value of a count as it stands in the JSON.
CountOf(v) == IF v.kind = "string" THEN StringToNumber(v.s) ELSE v

IsCount(v) ==
    /\ v.kind = "string"
    /\ v.s # <<>>
    /\ DigitRun(v.s) = Len(v.s)

\* The statements a handler issues, in order.
QueryPlan(r) ==
    CASE r = "/users" -> <<"users.list", "users.count">>
      [] r = "/users/:userId" ->
            <<"detail.userInfo", "detail.previews", "detail.downloads", "detail.logins">>
      [] r = "/registrations" -> <<"registrations">>
      [] r = "/logins" -> <<"logins">>
      [] r = "/online-duration" -> <<"online-duration">>
      [] r = "/overview" ->
            <<"overview.total_users", "overview.active_users", "overview.total_previews",
              "overview.total_downloads", "overview.total_logins">>
      [] OTHER -> <<>>

(***************************************************************************)
(* C1                                                                      *)
(***************************************************************************)
\* C1: on every route, a query is issued only after authenticateToken and
\* then requireAdmin have both called next(); a request that either gate
\* rejected has issued no query.
C1_QueriesBehindGates ==
    /\ issued # <<>> => Admitted /\ cred = "admin"
    /\ (pc = "done" /\ cred # "admin") =>
          /\ issued = <<>>
          /\ Len(responses) = 1
          /\ responses[1].status \in {401, 403}

C1_Witness ==
    /\ route = "/overview"
    /\ cred = "user"
    /\ pc = "done"
    /\ passed = <<"authenticateToken">>
    /\ issued = <<>>

(***************************************************************************)
(* C2                                                                      *)
(***************************************************************************)
SuccessfulLoginsInRange == {l \in db.login_logs : l.login_success /\ InRange(l.login_time)}

\* C2: GET /logins answers 200 for every combination of dateFrom and dateTo
\* given or not, with one row per day holding the distinct users and the
\* rows among the successful login logs in the range.
C2_LoginsAnyRange ==
    (route = "/logins" /\ pc = "done" /\ Admitted /\ ~fault) =>
        /\ Answered("/logins", 200)
        /\ LET rows == responses[1].body.logins
               days == {Date(l.login_time) : l \in SuccessfulLoginsInRange}
           IN  /\ {rows[i].date : i \in DOMAIN rows} = days
               /\ Len(rows) = Cardinality(days)
               /\ \A i \in DOMAIN rows :
                     LET on == {l \in SuccessfulLoginsInRange :
                                  Date(l.login_time) = rows[i].date}
                     IN  /\ CountOf(rows[i].total_logins) = Num(Cardinality(on))
                         /\ CountOf(rows[i].unique_users) =
                               Num(Cardinality({l.user_id : l \in on}))

(***************************************************************************)
(* C3                                                                      *)
(***************************************************************************)
\* C3: GET /overview answers 200 for every combination of dateFrom and
\* dateTo given or not, with the five totals counted over the range.
C3_OverviewAnyRange ==
    (route = "/overview" /\ pc = "done" /\ Admitted /\ ~fault) =>
        /\ Answered("/overview", 200)
        /\ LET o == responses[1].body.overview
               gens == {g \in db.generations : InRange(g.created_at)}
           IN  /\ o.total_users = Num(Cardinality({u \in db.users : InRange(u.created_at)}))
               /\ o.active_users =
                     Num(Cardinality({l.user_id : l \in SuccessfulLoginsInRange}))
               /\ o.total_previews =
                     Num(Cardinality({g \in gens : g.generation_type = "preview"}))
               /\ o.total_downloads =
                     Num(Cardinality({g \in gens : g.generation_type = "paid" \/ g.is_paid}))
               /\ o.total_logins = Num(Cardinality(SuccessfulLoginsInRange))

(***************************************************************************)
(* C4                                                                      *)
(***************************************************************************)
\* C4: in every 200 answer of GET /overview, total_downloads plus
\* total_previews is at most the number of generations in the range.
C4_OverviewConsistent ==
    Answered("/overview", 200) =>
        LET o == responses[1].body.overview
        IN  o.total_downloads.n + o.total_previews.n
               <= Cardinality({g \in db.generations : InRange(g.created_at)})

(***************************************************************************)
(* C5                                                                      *)
(***************************************************************************)
NoSuchUser == \A u \in db.users : u.id # StringToNumber(q.userId.s).n

\* C5: GET /users/:userId for an id without a row issues the user
\* statement and no other, sends exactly one response, and that response is
\* the 404 with the not-found message alone (the 500 of the catch block if
\* the user statement itself failed).
C5_AbsentUser404 ==
    (route = "/users/:userId" /\ issued # <<>> /\ NoSuchUser) =>
        /\ issued = <<"detail.userInfo">>
        /\ pc = "done"
        /\ Len(responses) = 1
        /\ DOMAIN responses[1].body = {"message"}
        /\ ~fault => responses[1] = [status |-> 404, body |-> NotFoundBody]
        /\ fault => responses[1].status = 500

C5_Witness ==
    /\ route = "/users/:userId"
    /\ NoSuchUser
    /\ db.users # {}
    /\ issued = <<"detail.userInfo">>
    /\ responses = <<[status |-> 404, body |-> NotFoundBody]>>

(***************************************************************************)
(* C6                                                                      *)
(***************************************************************************)
\* The users the WHERE clause of both statements keeps.
MatchingUsers ==
    {u \in db.users :
        /\ \/ LikeMatch(SearchPattern(UsersSearch(q)), u.username)
           \/ LikeMatch(SearchPattern(UsersSearch(q)), u.email)
        /\ InRange(u.created_at)}

\* At most L rows; total, page and limit echoed; pages = ceil(total / L).
Paginated(P, L) ==
    LET b == responses[1].body
        T == Cardinality(MatchingUsers)
    IN  /\ Len(b.users) <= L
        /\ b.pagination.total = Num(T)
        /\ b.pagination.page = Num(P)
        /\ b.pagination.limit = Num(L)
        /\ L > 0
        /\ b.pagination.pages.kind = "number"
        /\ b.pagination.pages.n * L >= T
        /\ (b.pagination.pages.n - 1) * L < T

\* A parameter left out, or written as decimal digits with a value >= 1.
PlainPositive(v) ==
    \/ v.kind = "undefined"
    \/ /\ v.kind = "string"
       /\ v.s # <<>>
       /\ DigitRun(v.s) = Len(v.s)
       /\ StringToNumber(v.s).n >= 1

\* C6 as claimed: for the page and limit of the query string, whatever they
\* are, a 200 answer has at most limit rows, pages = ceil(total / limit),
\* and total, page and limit echoed.
C6_PaginationAnyInput ==
    Answered("/users", 200) =>
        /\ ToNumber(UsersPage(q)).kind = "number"
        /\ ToNumber(UsersLimit(q)).kind = "number"
        /\ Paginated(ToNumber(UsersPage(q)).n, ToNumber(UsersLimit(q)).n)

\* C6 amended: the same, for page and limit each left out or written as a
\* plain decimal integer >= 1.
C6_PaginationPositive ==
    (Answered("/users", 200) /\ PlainPositive(q.page) /\ PlainPositive(q.limit)) =>
        Paginated(ToNumber(UsersPage(q)).n, ToNumber(UsersLimit(q)).n)

C6_Witness ==
    /\ Answered("/users", 200)
    /\ q.page = Str(<<"2">>)
    /\ q.limit = Str(<<"1">>)
    /\ Cardinality(MatchingUsers) = 2
    /\ Len(responses[1].body.users) = 1
    /\ responses[1].body.pagination.pages = Num(2)

(***************************************************************************)
(* C7                                                                      *)
(***************************************************************************)
\* The statements issued are the first ones of the route's plan, each once.
IssuedInOrder ==
    /\ Len(issued) <= Len(QueryPlan(route))
    /\ issued = SubSeq(QueryPlan(route), 1, Len(issued))

FailureIsTerminal ==
    /\ Len(responses) <= 1
    /\ pc = "done" <=> Len(responses) = 1
    /\ IssuedInOrder
    /\ fault => /\ pc = "done"
                /\ responses = <<[status |-> 500, body |-> ErrorBody]>>
    /\ (pc = "done" /\ Admitted) =>
          \/ responses[1].status = 200 /\ Len(issued) = Len(QueryPlan(route))
          \/ responses[1] = [status |-> 500, body |-> ErrorBody]
          \/ /\ responses[1] = [status |-> 404, body |-> NotFoundBody]
             /\ route = "/users/:userId"
             /\ NoSuchUser

\* C7: a failing query ends the request with exactly one response, the 500
\* with the fixed message; no later statement of the handler is issued,
\* none is issued twice, and nothing happens once the response is sent; the
\* only other error answer of a handler is the 404 of an absent user.
C7_FailureIsTerminal == [][pc # "done" /\ FailureIsTerminal']_vars

C7_Witness ==
    /\ route = "/overview"
    /\ fault
    /\ issued = SubSeq(QueryPlan("/overview"), 1, 3)
    /\ responses = <<[status |-> 500, body |-> ErrorBody]>>

(***************************************************************************)
(* C8                                                                      *)
(***************************************************************************)
\* C8: every row of GET /users counts the user's preview generations, the
\* user's generations typed paid or marked paid, and the user's successful
\* logins, however many rows the user has in the other joined table.
C8_PerUserCounts ==
    Answered("/users", 200) =>
        \A i \in DOMAIN responses[1].body.users :
            LET row == responses[1].body.users[i]
                gens == {g \in db.generations : g.user_id = row.id}
            IN  /\ CountOf(row.preview_count) =
                      Num(Cardinality({g \in gens : g.generation_type = "preview"}))
                /\ CountOf(row.download_count) =
                      Num(Cardinality({g \in gens :
                                         g.generation_type = "paid" \/ g.is_paid}))
                /\ CountOf(row.login_count) =
                      Num(Cardinality({l \in db.login_logs :
                                         l.user_id = row.id /\ l.login_success}))

C8_Witness ==
    /\ Answered("/users", 200)
    /\ \E i \in DOMAIN responses[1].body.users :
          LET row == responses[1].body.users[i]
          IN  /\ row.download_count = Str(<<"2">>)
              /\ row.login_count = Str(<<"2">>)

(***************************************************************************)
(* C9                                                                      *)
(***************************************************************************)
Holders ==
    {u \in db.users : Contains(u.username, q.search.s) \/ Contains(u.email, q.search.s)}

\* C9: with a search string that occurs in the username or email of
\* exactly one user, no date filter and the default page and limit,
\* GET /users returns that user alone and total 1.
C9_SearchFindsTheOne ==
    (/\ Answered("/users", 200)
     /\ q.search.kind = "string"
     /\ q.page = Undefined /\ q.limit = Undefined
     /\ q.dateFrom = Undefined /\ q.dateTo = Undefined
     /\ Cardinality(Holders) = 1) =>
        /\ Len(responses[1].body.users) = 1
        /\ \E u \in Holders : responses[1].body.users[1].id = u.id
        /\ responses[1].body.pagination.total = Num(1)

(***************************************************************************)
(* C10                                                                     *)
(***************************************************************************)
RECURSIVE SumCounts(_)
SumCounts(rows) ==
    IF rows = <<>> THEN 0 ELSE CountOf(Head(rows).count).n + SumCounts(Tail(rows))

\* C10: GET /registrations answers 200 for every combination of dateFrom
\* and dateTo given or not; every count is a non-negative integer, no date
\* comes twice, and the counts add up to the number of users whose
\* created_at lies in the inclusive range.
C10_RegistrationsAddUp ==
    (route = "/registrations" /\ pc = "done" /\ Admitted /\ ~fault) =>
        /\ Answered("/registrations", 200)
        /\ LET rows == responses[1].body.registrations
           IN  /\ \A i \in DOMAIN rows : IsCount(rows[i].count)
               /\ \A i, j \in DOMAIN rows : i # j => rows[i].date # rows[j].date
               /\ SumCounts(rows) =
                     Cardinality({u \in db.users : InRange(u.created_at)})

C10_Witness ==
    /\ Answered("/registrations", 200)
    /\ q.dateFrom.kind = "date"
    /\ q.dateTo.kind = "date"
    /\ \E u \in db.users : ~InRange(u.created_at)
    /\ responses[1].body.registrations # <<>>

====
